---- MODULE Spec2Model ----
(***************************************************************************)
(* A model of mapbuffer: the MapBuffer byte format (header, Eytzinger      *)
(* index, data region with per-blob CRC-32C), its writer dict2buf and its  *)
(* reader (lookup, iteration, in-place update, validation).                *)
(*                                                                         *)
(* Byte strings are sequences of naturals below 256.  A Python value that  *)
(* may be None is a sequence of length 0 (None) or 1 (the value).          *)
(***************************************************************************)
EXTENDS Integers, Sequences, FiniteSets, TLC

VARIABLES
  data,       \* the dict handed to MapBuffer(...): a sequence of <<label, value>> items
  method,     \* the compress= argument of the constructor
  buffer,     \* self.buffer: the bytes behind the reader
  kind,       \* what self.buffer is: "bytes", "bytearray" or "object" (slice reads only)
  check_crc,  \* self.check_crc
  _header,    \* self._header: None or the cached header bytes
  _index,     \* self._index: None or the cached Nx2 index array
  _compress,  \* self._compress: None or the cached compression name
  result,     \* what the last call on the reader returned or raised
  threads     \* per thread, the lookup it has in flight on the reader and its locals

vars == <<data, method, buffer, kind, check_crc, _header, _index, _compress, result, threads>>

(***************************************************************************)
(* Bounds of the model.                                                    *)
(***************************************************************************)
MaxKey == 2      \* the labels of a dict are drawn from 0..MaxKey

Labels == 0..MaxKey
Probes == 0..(MaxKey + 1)                \* the labels looked up: one above every stored label
Values == {<<>>, <<255, 104>>}           \* the values of a dict
NewValues == {<<97>>, <<97, 98>>}        \* the values written in place
MaxSortLen == 6                          \* sorted arrays hold labels drawn from 1..MaxSortLen
MaxSearchKey == 5                        \* searched indexes hold labels drawn from 0..MaxSearchKey

(***************************************************************************)
(* Program constants.                                                      *)
(***************************************************************************)
FORMAT_VERSION == 1
HEADER_LENGTH == 16
MAGIC_NUMBERS == <<109, 97, 112, 98, 117, 102, 114>>   \* b"mapbufr"

None == <<>>
Some(v) == <<v>>

\* the threads that share a reader, and a thread with no lookup in flight
Threads == {1, 2}
IdleThread ==
  [pc |-> "idle", op |-> "", label |-> -1, phase |-> "", cont |-> "",
   hdr |-> None, idx |-> None, pos |-> None, value |-> None, out |-> None]
NoLookups == [t \in Threads |-> IdleThread]

(***************************************************************************)
(* Python's bytes operations.                                              *)
(***************************************************************************)
\* a sequence given as a function on 1..n, with its elements worked out
Tuple(f) == SubSeq(f, 1, Len(f))

Min(a, b) == IF a < b THEN a ELSE b
Max(a, b) == IF a > b THEN a ELSE b

\* b[start:stop] for 0 <= start, 0 <= stop
Slice(b, start, stop) == SubSeq(b, start + 1, Min(stop, Len(b)))
\* b[start:]
SliceFrom(b, start) == SubSeq(b, start + 1, Len(b))
\* b[:stop]
SliceTo(b, stop) == SubSeq(b, 1, Min(stop, Len(b)))
\* b[-n:]
LastN(b, n) == SubSeq(b, Max(1, Len(b) - n + 1), Len(b))
\* b[:-n]
DropLastN(b, n) == SubSeq(b, 1, Len(b) - n)

RECURSIVE Concat(_)
\* b"".join(parts)
Concat(parts) == IF parts = <<>> THEN <<>> ELSE Head(parts) \o Concat(Tail(parts))

RECURSIVE to_bytes(_, _)
\* n.to_bytes(w, byteorder="little")
to_bytes(n, w) == IF w = 0 THEN <<>> ELSE <<n % 256>> \o to_bytes(n \div 256, w - 1)

RECURSIVE from_bytes(_)
\* int.from_bytes(b, byteorder="little", signed=False)
from_bytes(b) == IF b = <<>> THEN 0 ELSE Head(b) + 256 * from_bytes(Tail(b))

\* A 32-bit unsigned integer too wide for 32-bit signed arithmetic is kept as
\* its four little-endian bytes: int.from_bytes of up to 4 bytes.
from_bytes32(b) == b \o SubSeq(<<0, 0, 0, 0>>, 1, 4 - Len(b))

(***************************************************************************)
(* crc32c.crc32c: CRC-32C (Castagnoli), reflected polynomial 0x82F63B78,   *)
(* computed a byte at a time on the four little-endian bytes of the        *)
(* register.                                                               *)
(***************************************************************************)
RECURSIVE XorByte(_, _)
XorByte(a, b) ==
  IF a = 0 THEN b
  ELSE IF b = 0 THEN a
  ELSE ((a + b) % 2) + 2 * XorByte(a \div 2, b \div 2)

Xor32(u, v) ==
  <<XorByte(u[1], v[1]), XorByte(u[2], v[2]), XorByte(u[3], v[3]), XorByte(u[4], v[4])>>
Shr1(u) ==
  <<(u[1] \div 2) + (u[2] % 2) * 128, (u[2] \div 2) + (u[3] % 2) * 128,
    (u[3] \div 2) + (u[4] % 2) * 128, u[4] \div 2>>
Shr8(u) == <<u[2], u[3], u[4], 0>>
CRC32C_POLY == <<120, 59, 246, 130>>   \* 0x82F63B78

RECURSIVE CrcBits(_, _)
CrcBits(u, n) ==
  IF n = 0 THEN u
  ELSE CrcBits(IF u[1] % 2 = 1 THEN Xor32(Shr1(u), CRC32C_POLY) ELSE Shr1(u), n - 1)

\* the table of the byte-wise algorithm: entry b + 1 is the register after byte b
CrcTable == Tuple([b \in 1..256 |-> CrcBits(<<b - 1, 0, 0, 0>>, 8)])

RECURSIVE CrcUpdate(_, _)
CrcUpdate(u, b) ==
  IF b = <<>> THEN u
  ELSE CrcUpdate(Xor32(CrcTable[XorByte(u[1], Head(b)) + 1], Shr8(u)), Tail(b))

\* The checksum of b as the bytes crc32c(b).to_bytes(4, byteorder='little').
crc32c(b) == Xor32(CrcUpdate(<<255, 255, 255, 255>>, b), <<255, 255, 255, 255>>)

(***************************************************************************)
(* The compression module (not among the sources; modelled from the        *)
(* format's description): names are ASCII strings, the header tag is the   *)
(* name right-justified in four bytes with '0' padding, "none" stands for  *)
(* no compression, and every codec is an invertible framing of the bytes.  *)
(***************************************************************************)
STR_none == <<110, 111, 110, 101>>
STR_gzip == <<103, 122, 105, 112>>
STR_br == <<98, 114>>
STR_zstd == <<122, 115, 116, 100>>
STR_lzma == <<108, 122, 109, 97>>

COMPRESSION_TYPES == {None, Some(STR_gzip), Some(STR_br), Some(STR_zstd), Some(STR_lzma)}

RECURSIVE lstrip0(_)
\* s.lstrip("0")
lstrip0(s) == IF s # <<>> /\ Head(s) = 48 THEN lstrip0(Tail(s)) ELSE s

\* s.lower()
lower(s) == Tuple([i \in 1..Len(s) |-> IF s[i] >= 65 /\ s[i] <= 90 THEN s[i] + 32 ELSE s[i]])

\* the name as it is, not padded
zfill4_Unpadded(s) == s

\* s.zfill(4)
zfill4(s) == SubSeq(<<48, 48, 48, 48>>, 1, 4 - Len(s)) \o s

\* normalize_encoding of a header tag or of a compress= argument (None or a name)
normalize_encoding(enc) ==
  IF enc = None THEN None
  ELSE LET name == lower(lstrip0(enc[1]))
       IN IF name = STR_none THEN None ELSE Some(name)

\* compression.compress(content, method): [status, value]
compression_compress(content, enc) ==
  IF enc = None THEN [status |-> "ok", value |-> content]
  ELSE IF enc \notin COMPRESSION_TYPES
    THEN [status |-> "UnsupportedCompressionType", value |-> <<>>]
  ELSE LET magic == Head(enc[1])
       IN [status |-> "ok",
           value |-> <<magic>> \o Tuple([i \in 1..Len(content) |->
                                            (content[i] + magic) % 256])]

\* compression.decompress(content, encoding, filename): [status, value]
compression_decompress(content, enc) ==
  IF enc = None THEN [status |-> "ok", value |-> content]
  ELSE IF enc \notin COMPRESSION_TYPES
    THEN [status |-> "UnsupportedCompressionType", value |-> <<>>]
  ELSE LET magic == Head(enc[1])
       IN IF content = <<>> \/ Head(content) # magic
            THEN [status |-> "DecompressionError", value |-> <<>>]
            ELSE [status |-> "ok",
                  value |-> Tuple([i \in 1..(Len(content) - 1) |->
                                     (content[i + 1] + 256 - magic) % 256])]

(***************************************************************************)
(* lib.py                                                                  *)
(***************************************************************************)
\* nvl(a, b): the leftmost argument that is not None
nvl(a, b) == IF a # None THEN a ELSE b

RECURSIVE eytzinger_sort_PreOrder(_, _, _, _)
\* the walk that writes a slot before it visits the slot's left child
eytzinger_sort_PreOrder(inpt, output, i, k) ==
  IF k <= Len(inpt)
    THEN LET out1 == [output EXCEPT ![k] = inpt[i + 1]]
             left == eytzinger_sort_PreOrder(inpt, out1, i + 1, 2 * k)
         IN eytzinger_sort_PreOrder(inpt, left[2], left[1], 2 * k + 1)
    ELSE <<i, output>>

RECURSIVE eytzinger_sort(_, _, _, _)
\* eytzinger_sort(inpt, output, i, k): <<the returned i, output as it leaves it>>
eytzinger_sort(inpt, output, i, k) ==
  IF k <= Len(inpt)
    THEN LET left == eytzinger_sort(inpt, output, i, 2 * k)
             out1 == [left[2] EXCEPT ![k] = inpt[left[1] + 1]]
         IN eytzinger_sort(inpt, out1, left[1] + 1, 2 * k + 1)
    ELSE <<i, output>>

(***************************************************************************)
(* mapbufferaccel (the C extension, not among the sources; modelled from   *)
(* the description of the Eytzinger layout and search).                    *)
(***************************************************************************)
\* eytzinger_sort_indices(N): slot j holds the sorted position layout[j + 1]
eytzinger_sort_indices(N) ==
  eytzinger_sort(Tuple([i \in 1..N |-> i - 1]), Tuple([i \in 1..N |-> 0]), 0, 1)[2]

RECURSIVE EytzingerDescend(_, _, _)
\* while k <= N: k = 2k + (E[k-1].key < T)
EytzingerDescend(index, label, k) ==
  IF k <= Len(index)
    THEN EytzingerDescend(index, label, 2 * k + (IF index[k][1] < label THEN 1 ELSE 0))
    ELSE k

RECURSIVE ShiftFfsNot(_)
\* k >>= ffs(~k): drop the trailing 1-bits and the 0 above them
ShiftFfsNot(k) == IF k % 2 = 0 THEN k \div 2 ELSE ShiftFfsNot(k \div 2)

\* eytzinger_binary_search(label, index): the slot of label, or -1
eytzinger_binary_search(label, index) ==
  LET k == ShiftFfsNot(EytzingerDescend(index, label, 1)) - 1
  IN IF k >= 0 /\ k < Len(index) /\ index[k + 1][1] = label THEN k ELSE -1

(***************************************************************************)
(* MapBuffer.dict2buf                                                      *)
(***************************************************************************)
RECURSIVE Insert(_, _)
Insert(s, x) ==
  IF s = <<>> THEN <<x>>
  ELSE IF x < Head(s) THEN <<x>> \o s
  ELSE <<Head(s)>> \o Insert(Tail(s), x)

\* the labels left in the order the dict lists them
SortAsc_Unsorted(s) == s

RECURSIVE SortAsc(_)
\* labels.sort()
SortAsc(s) == IF s = <<>> THEN <<>> ELSE Insert(SortAsc(Tail(s)), Head(s))

\* d[key] for a dict given as its items
DictGet(d, key) == d[CHOOSE i \in 1..Len(d) : d[i][1] = key][2]

\* bytes_data[label]: the compressed value followed by its crc32c
Blob(d, enc, label) ==
  LET c == compression_compress(DictGet(d, label), enc).value
  IN c \o crc32c(c)

RECURSIVE Offsets_ValueLength(_, _, _, _)
\* offsets that advance by the length of the compressed value, without its trailer
Offsets_ValueLength(d, enc, labels, first) ==
  IF labels = <<>> THEN <<>>
  ELSE <<first>> \o Offsets_ValueLength(d, enc, Tail(labels),
              first + Len(compression_compress(DictGet(d, Head(labels)), enc).value))

RECURSIVE Offsets(_, _, _, _)
\* index[1] = first; index[i*2+1] = index[(i-1)*2+1] + len(bytes_data[labels[i-1]])
Offsets(d, enc, labels, first) ==
  IF labels = <<>> THEN <<>>
  ELSE <<first>> \o Offsets(d, enc, Tail(labels), first + Len(Blob(d, enc, Head(labels))))

\* the blobs joined in ascending order of their labels
data_region_Ascending(d, enc, labels) ==
  LET sorted == SortAsc(labels)
  IN Concat(Tuple([j \in 1..Len(sorted) |-> Blob(d, enc, sorted[j])]))

\* b"".join(bytes_data[label] for label in labels)
data_region(d, enc, labels) ==
  Concat(Tuple([j \in 1..Len(labels) |-> Blob(d, enc, labels[j])]))

dict2buf(d, compress_arg) ==
  LET sorted == SortAsc(Tuple([i \in 1..Len(d) |-> d[i][1]]))
      layout == eytzinger_sort_indices(Len(d))
      labels == Tuple([j \in 1..Len(d) |-> sorted[layout[j] + 1]])
      N == Len(labels)
      enc == normalize_encoding(compress_arg)
      compress_header == nvl(enc, Some(STR_none))[1]
      header == MAGIC_NUMBERS \o <<FORMAT_VERSION>> \o zfill4(compress_header)
                  \o to_bytes(N, 4)
      index_length == 2 * N
      offsets == Offsets(d, enc, labels, HEADER_LENGTH + index_length * 8)
      index == Concat(Tuple([j \in 1..N |->
                         to_bytes(labels[j], 8) \o to_bytes(offsets[j], 8)]))
  IN IF N = 0 THEN header ELSE header \o index \o data_region(d, enc, labels)


(***************************************************************************)
(* The reader: MapBuffer over self.buffer.  Each operator reads the state  *)
(* of the reader; a call's outcome is [status, value] with status "ok" or  *)
(* the exception raised, and value what was returned (None when nothing).  *)
(***************************************************************************)
Ok(v) == [status |-> "ok", value |-> Some(v)]
Raise(e) == [status |-> e, value |-> None]

\* header property: the cached bytes, or self.buffer[:HEADER_LENGTH]
header == IF _header # None THEN _header[1] ELSE SliceTo(buffer, HEADER_LENGTH)

\* __len__: int.from_bytes(self.header[12:16], byteorder="little", signed=False)
__len__ == from_bytes(Slice(header, 12, 16))

\* format_version property: self.header[len(MAGIC_NUMBERS)]
format_version == header[Len(MAGIC_NUMBERS) + 1]

\* compress property: the cached name if it is truthy, else the normalized header tag
compress ==
  IF _compress # None THEN _compress ELSE normalize_encoding(Some(Slice(header, 8, 12)))

\* np.frombuffer(raw, dtype=np.uint64).reshape((N, 2)): rows <<label, offset>>
frombuffer(raw, N) ==
  Tuple([j \in 1..N |-> << from_bytes(Slice(raw, 16 * (j - 1), 16 * (j - 1) + 8)),
                           from_bytes(Slice(raw, 16 * (j - 1) + 8, 16 * j)) >>])

\* index(): the cached array, or the array read from the buffer; reshape
\* raises ValueError when the slice does not hold N rows
index ==
  IF _index # None THEN Ok(_index[1])
  ELSE LET N == __len__
           index_length == 2 * N * 8
           raw == Slice(buffer, HEADER_LENGTH, index_length + HEADER_LENGTH)
       IN IF Len(raw) # index_length THEN Raise("ValueError") ELSE Ok(frombuffer(raw, N))

\* len(self.buffer): an object with slice reads only has no len
buffer_len == IF kind = "object" THEN Raise("TypeError") ELSE Ok(Len(buffer))

\* getindex that strips the trailer and never compares it
getindex_Unchecked(i) ==
  LET idx == index.value[1]
      N == Len(idx)
      offset == idx[i + 1][2]
      raw == IF i < N - 1 THEN Slice(buffer, offset, idx[i + 2][2])
                          ELSE SliceFrom(buffer, offset)
      value == IF format_version = 1 THEN DropLastN(raw, 4) ELSE raw
      encoding == compress
  IN IF encoding # None
       THEN LET d == compression_decompress(value, encoding)
            IN IF d.status = "ok" THEN Ok(d.value) ELSE Raise(d.status)
     ELSE Ok(value)

\* getindex that ends the last blob at len(self.buffer)
getindex_LenLast(i) ==
  LET idx == index.value[1]
      N == Len(idx)
      offset == idx[i + 1][2]
      raw == IF i < N - 1 THEN Slice(buffer, offset, idx[i + 2][2])
                          ELSE Slice(buffer, offset, Len(buffer))
      stored_check_value == from_bytes32(LastN(raw, 4))
      value == IF format_version = 1 THEN DropLastN(raw, 4) ELSE raw
      encoding == compress
  IN IF ~(i < N - 1) /\ buffer_len.status # "ok" THEN Raise(buffer_len.status)
     ELSE IF format_version = 1 /\ check_crc /\ crc32c(value) # stored_check_value
       THEN Raise("ValidationError")
     ELSE IF encoding # None
       THEN LET d == compression_decompress(value, encoding)
            IN IF d.status = "ok" THEN Ok(d.value) ELSE Raise(d.status)
     ELSE Ok(value)

\* getindex(i), i a 0-based slot of the index
getindex(i) ==
  LET idx == index.value[1]
      N == Len(idx)
      offset == idx[i + 1][2]
      raw == IF i < N - 1 THEN Slice(buffer, offset, idx[i + 2][2])
                          ELSE SliceFrom(buffer, offset)
      stored_check_value == from_bytes32(LastN(raw, 4))
      value == IF format_version = 1 THEN DropLastN(raw, 4) ELSE raw
      encoding == compress
  IN IF format_version = 1 /\ check_crc /\ crc32c(value) # stored_check_value
       THEN Raise("ValidationError")
     ELSE IF encoding # None
       THEN LET d == compression_decompress(value, encoding)
            IN IF d.status = "ok" THEN Ok(d.value) ELSE Raise(d.status)
     ELSE Ok(value)

\* find_index_position(label): [status, value] with value None or the slot
find_index_position(label) ==
  IF index.status # "ok" THEN Raise(index.status)
  ELSE LET idx == index.value[1]
           N == Len(idx)
           k == eytzinger_binary_search(label, idx)
       IN IF N = 0 THEN [status |-> "ok", value |-> None]
          ELSE IF k >= 0 /\ k < N THEN Ok(k)
          ELSE [status |-> "ok", value |-> None]

\* get(label, *args): args is None (no default given) or the default
get(label, args) ==
  LET pos == find_index_position(label)
  IN IF pos.status # "ok" THEN pos
     ELSE IF pos.value = None
       THEN (IF args # None THEN Ok(args[1])
             ELSE [status |-> "ok", value |-> None])   \* kwargs.get("default") is None
     ELSE getindex(pos.value[1])

\* __contains__(label)
__contains__(label) ==
  LET pos == find_index_position(label)
  IN IF pos.status # "ok" THEN pos ELSE Ok(pos.value # None)

\* __getitem__(label)
__getitem__(label) ==
  LET pos == find_index_position(label)
  IN IF pos.status # "ok" THEN pos
     ELSE IF pos.value # None THEN getindex(pos.value[1])
     ELSE Raise("KeyError")

\* keys() yielding the second column of the index
keys_Offsets ==
  IF index.status # "ok" THEN Raise(index.status)
  ELSE LET idx == index.value[1]
       IN Ok(Tuple([j \in 1..Len(idx) |-> idx[j][2]]))

\* keys(): the labels of the index in slot order
keys ==
  IF index.status # "ok" THEN Raise(index.status)
  ELSE LET idx == index.value[1]
       IN Ok(Tuple([j \in 1..Len(idx) |-> idx[j][1]]))

RECURSIVE ItemsFrom(_, _)
\* items() from slot i on: the pairs yielded, or the first exception
ItemsFrom(i, N) ==
  IF i >= N THEN Ok(<<>>)
  ELSE LET v == getindex(i)
           rest == ItemsFrom(i + 1, N)
       IN IF v.status # "ok" THEN v
          ELSE IF rest.status # "ok" THEN rest
          ELSE Ok(<< <<index.value[1][i + 1][1], v.value[1]>> >> \o rest.value[1])

\* items(): range(len(self)) over index()
items == IF index.status # "ok" THEN Raise(index.status) ELSE ItemsFrom(0, __len__)

\* todict(): the dict of items(), a later item replacing an earlier one of its
\* label; given as the set of its <<label, value>> pairs
todict ==
  IF items.status # "ok" THEN items
  ELSE LET its == items.value[1]
       IN Ok({ its[j] : j \in { j \in 1..Len(its) :
                 \A l \in (j + 1)..Len(its) : its[l][1] # its[j][1] } })


\* self.buffer[start:stop] = new on a bytearray: the slice is replaced, the
\* buffer resized when the lengths differ
SliceAssign(b, start, stop, new) ==
  LET lo == Min(start, Len(b))
      hi == Max(lo, Min(stop, Len(b)))
  IN SliceTo(b, lo) \o new \o SliceFrom(b, hi)

\* setindex without the comparison of the lengths
setindex_AnyLength(i, val) ==
  LET idx == index.value[1]
      N == Len(idx)
      offset == idx[i + 1][2]
      last == ~(i < N - 1)
      next_offset == IF last THEN Len(buffer) ELSE idx[i + 2][2]
      c == IF compress # None THEN compression_compress(val, compress)
                              ELSE [status |-> "ok", value |-> val]
      written == IF format_version = 1 THEN c.value ELSE c.value \o crc32c(c.value)
  IN IF last /\ buffer_len.status # "ok" THEN [status |-> buffer_len.status, buffer |-> buffer]
     ELSE IF c.status # "ok" THEN [status |-> c.status, buffer |-> buffer]
     ELSE IF kind # "bytearray" THEN [status |-> "TypeError", buffer |-> buffer]
     ELSE [status |-> "ok", buffer |-> SliceAssign(buffer, offset, next_offset, written)]

\* setindex(i, data): [status, buffer], the buffer as the call leaves it
setindex(i, val) ==
  LET idx == index.value[1]
      N == Len(idx)
      offset == idx[i + 1][2]
      last == ~(i < N - 1)
      next_offset == IF last THEN Len(buffer) ELSE idx[i + 2][2]
      existing_length == next_offset - offset
      c == IF compress # None THEN compression_compress(val, compress)
                              ELSE [status |-> "ok", value |-> val]
      check_length == Len(c.value) + (IF format_version = 1 THEN 4 ELSE 0)
      written == IF format_version = 1 THEN c.value ELSE c.value \o crc32c(c.value)
  IN IF last /\ buffer_len.status # "ok" THEN [status |-> buffer_len.status, buffer |-> buffer]
     ELSE IF c.status # "ok" THEN [status |-> c.status, buffer |-> buffer]
     ELSE IF check_length # existing_length THEN [status |-> "ValueError", buffer |-> buffer]
     ELSE IF kind # "bytearray" THEN [status |-> "TypeError", buffer |-> buffer]
     ELSE [status |-> "ok", buffer |-> SliceAssign(buffer, offset, next_offset, written)]

\* __setitem__(label, label_data): [status, buffer]
__setitem__(label, val) ==
  LET pos == find_index_position(label)
  IN IF pos.status # "ok" THEN [status |-> pos.status, buffer |-> buffer]
     ELSE IF pos.value # None THEN setindex(pos.value[1], val)
     ELSE [status |-> "KeyError", buffer |-> buffer]

\* datasize() counting the index in words, not bytes
datasize_Words == Len(buffer) - HEADER_LENGTH - __len__ * 2

\* datasize(): len(self.buffer) - HEADER_LENGTH - len(self) * 2 * 8
datasize == Len(buffer) - HEADER_LENGTH - __len__ * 2 * 8

\* validate()
validate ==
  IF index.status # "ok" THEN Raise(index.status)
  ELSE LET idx == index.value[1]
           N == Len(idx)
           offsets == Tuple([j \in 1..N |-> idx[j][2]])
           \* lengths.sum() + (len(self.buffer) - offsets[-1])
           length == (offsets[N] - offsets[1]) + (Len(buffer) - offsets[N])
       IN IF N # __len__ THEN Raise("ValidationError")
          ELSE IF SliceTo(header, Len(MAGIC_NUMBERS)) # MAGIC_NUMBERS THEN Raise("ValidationError")
          ELSE IF format_version \notin {0, 1} THEN Raise("ValidationError")
          ELSE IF compress \notin COMPRESSION_TYPES THEN Raise("ValidationError")
          ELSE IF __len__ > 0
            THEN (IF \E j \in 1..(N - 1) : offsets[j + 1] - offsets[j] < 0
                    THEN Raise("ValidationError")
                  ELSE IF buffer_len.status # "ok" THEN Raise(buffer_len.status)
                  \* the message of this ValidationError names an undefined mapbuf
                  ELSE IF length # datasize THEN Raise("NameError")
                  ELSE Ok(TRUE))
          ELSE IF buffer_len.status # "ok" THEN Raise(buffer_len.status)
          ELSE IF Len(buffer) # HEADER_LENGTH THEN Raise("ValidationError")
          ELSE Ok(TRUE)

(***************************************************************************)
(* What a call leaves in the caches.  index() reads the header (through    *)
(* len(self)) only when it has no cached array; getindex reads the header  *)
(* (format_version) and, once past the CRC check, the compress property.   *)
(***************************************************************************)
HeaderRead == Some(header)
IndexRead == IF index.status = "ok" THEN Some(index.value[1]) ELSE _index
CompressRead == compress

\* the caches after a call that looked label up and, on a hit and with fetch,
\* called getindex with outcome r
LookupCaches(label, fetch, r) ==
  LET pos == find_index_position(label)
      hit == pos.status = "ok" /\ pos.value # None /\ fetch
  IN /\ _header' = IF _index = None \/ hit THEN HeaderRead ELSE _header
     /\ _index' = IndexRead
     /\ _compress' = IF hit /\ r.status # "ValidationError" THEN CompressRead ELSE _compress

Res(op, label, arg, r) ==
  [op |-> op, label |-> label, arg |-> arg, status |-> r.status, value |-> r.value]

(***************************************************************************)
(* The reader's calls.                                                     *)
(***************************************************************************)
\* mbuf[label]
GetItem(label) ==
  /\ LET r == __getitem__(label)
     IN /\ result' = Res("getitem", label, None, r)
        /\ LookupCaches(label, TRUE, r)
  /\ UNCHANGED <<threads, data, method, buffer, kind, check_crc>>

\* mbuf.get(label) and mbuf.get(label, default)
Get(label, args) ==
  /\ LET r == get(label, args)
     IN /\ result' = Res("get", label, args, r)
        /\ LookupCaches(label, TRUE, r)
  /\ UNCHANGED <<threads, data, method, buffer, kind, check_crc>>

\* label in mbuf
Contains(label) ==
  /\ LET r == __contains__(label)
     IN /\ result' = Res("contains", label, None, r)
        /\ LookupCaches(label, FALSE, r)
  /\ UNCHANGED <<threads, data, method, buffer, kind, check_crc>>

\* len(mbuf)
LenCall ==
  /\ result' = Res("len", -1, None, Ok(__len__))
  /\ _header' = HeaderRead
  /\ UNCHANGED <<threads, data, method, buffer, kind, check_crc, _index, _compress>>

\* list(mbuf.keys()), list(mbuf)
Keys ==
  /\ result' = Res("keys", -1, None, keys)
  /\ _header' = IF _index = None THEN HeaderRead ELSE _header
  /\ _index' = IndexRead
  /\ UNCHANGED <<threads, data, method, buffer, kind, check_crc, _compress>>

\* mbuf.todict()
ToDict ==
  /\ result' = Res("todict", -1, None, todict)
  /\ _header' = HeaderRead
  /\ _index' = IndexRead
  /\ _compress' = IF index.status = "ok" /\ __len__ > 0
                       /\ getindex(0).status # "ValidationError"
                    THEN CompressRead ELSE _compress
  /\ UNCHANGED <<threads, data, method, buffer, kind, check_crc>>

\* mbuf.validate()
Validate ==
  /\ result' = Res("validate", -1, None, validate)
  /\ _header' = HeaderRead
  /\ _index' = IndexRead
  /\ _compress' = IF /\ index.status = "ok"
                     /\ Len(index.value[1]) = __len__
                     /\ SliceTo(header, Len(MAGIC_NUMBERS)) = MAGIC_NUMBERS
                     /\ format_version \in {0, 1}
                    THEN CompressRead ELSE _compress
  /\ UNCHANGED <<threads, data, method, buffer, kind, check_crc>>

\* mbuf[label] = val
SetItem(label, val) ==
  LET r == __setitem__(label, val)
      pos == find_index_position(label)
      hit == pos.status = "ok" /\ pos.value # None
      \* setindex gets past len(self.buffer) and reads compress and format_version
      reached == hit /\ ~(kind = "object" /\ pos.value[1] = Len(index.value[1]) - 1)
  IN /\ result' = Res("setitem", label, Some(val), [status |-> r.status, value |-> None])
     /\ buffer' = r.buffer
     /\ _header' = IF _index = None \/ reached THEN HeaderRead ELSE _header
     /\ _index' = IndexRead
     /\ _compress' = IF reached THEN CompressRead ELSE _compress
     /\ UNCHANGED <<threads, data, method, kind, check_crc>>

(***************************************************************************)
(* What the callers of the reader do to it.                                *)
(***************************************************************************)
\* A new reader over the same bytes: MapBuffer(mbuf.tobytes()),
\* MapBuffer(bytearray(mbuf.buffer)) or MapBuffer(Reader()), with Reader an
\* object that has only __getitem__ for slices
Reopen(k, crc) ==
  /\ kind' = k
  /\ check_crc' = crc
  /\ _header' = None
  /\ _index' = None
  /\ _compress' = None
  /\ result' = Res("open", -1, None, [status |-> "ok", value |-> None])
  /\ UNCHANGED <<threads, data, method, buffer>>

\* the bytes a changed byte takes: one bit flipped, or all of them
Changed(old) == {IF old % 2 = 0 THEN old + 1 ELSE old - 1, 255 - old}

\* buf = list(mbuf.buffer); buf[pos] = b; mbuf.buffer = bytes(buf)
Corrupt(pos, b) ==
  /\ pos < Len(buffer)
  /\ b \in Changed(buffer[pos + 1])
  /\ buffer' = [buffer EXCEPT ![pos + 1] = b]
  /\ kind' = "bytes"
  /\ result' = Res("corrupt", pos, None, [status |-> "ok", value |-> None])
  /\ UNCHANGED <<threads, data, method, check_crc, _header, _index, _compress>>

\* buf = list(mbuf.buffer); buf[pos] = b; MapBuffer(bytes(buf)), the reader
\* that validate_buffer builds
OpenChanged(pos, b) ==
  /\ pos < Len(buffer)
  /\ b \in Changed(buffer[pos + 1])
  /\ buffer' = [buffer EXCEPT ![pos + 1] = b]
  /\ kind' = "bytes"
  /\ check_crc' = TRUE
  /\ _header' = None
  /\ _index' = None
  /\ _compress' = None
  /\ result' = Res("open", pos, None, [status |-> "ok", value |-> None])
  /\ UNCHANGED <<threads, data, method>>

(***************************************************************************)
(* The dicts a MapBuffer is built from, given as their items.              *)
(***************************************************************************)
RECURSIVE Ascending(_)
\* the elements of a set of labels in ascending order
Ascending(S) ==
  IF S = {} THEN <<>>
  ELSE LET m == CHOOSE x \in S : \A y \in S : x <= y
       IN <<m>> \o Ascending(S \ {m})

Dicts ==
  UNION { { Tuple([j \in 1..Cardinality(S) |-> <<Ascending(S)[j], f[Ascending(S)[j]]>>]) :
              f \in [S -> Values] } : S \in SUBSET Labels }

\* the region of the written buffer that holds the blobs
DataStart(d) == HEADER_LENGTH + 16 * Len(d)

\* MapBuffer(data, compress=method): the reader built from a dict
Init ==
  /\ data \in Dicts
  /\ method \in COMPRESSION_TYPES
  /\ check_crc = TRUE
  /\ buffer = dict2buf(data, method)
  /\ kind = "bytes"
  /\ _header = None
  /\ _index = None
  /\ _compress = None
  /\ result = Res("init", -1, None, [status |-> "ok", value |-> None])
  /\ threads = NoLookups

Lookup ==
  \/ \E label \in Probes : GetItem(label)
  \/ \E label \in Probes, args \in {None, Some(<<0>>)} : Get(label, args)
  \/ \E label \in Probes : Contains(label)

\* the reader built from a dict, and what can be read from it
Next ==
  \/ Lookup
  \/ LenCall
  \/ Keys
  \/ ToDict
  \/ Validate

Spec == Init /\ [][Next]_vars

\* the buffer holds what dict2buf wrote
Written == buffer = dict2buf(data, method)

(***************************************************************************)
(* A reader over an object that has slice reads only, next to the reader   *)
(* over the bytes.                                                         *)
(***************************************************************************)
Open == \E k \in {"bytes", "object"}, crc \in BOOLEAN : Reopen(k, crc)

NextObject ==
  \/ Open
  \/ Lookup

SpecObject == Init /\ [][NextObject]_vars

(***************************************************************************)
(* A reader whose buffer is replaced by the written bytes with one byte of *)
(* the data region changed.                                                *)
(***************************************************************************)
CorruptData ==
  /\ Written
  /\ \E pos \in DataStart(data)..(Len(buffer) - 1) :
       \E b \in Changed(buffer[pos + 1]) : Corrupt(pos, b)

NextCrc ==
  \/ CorruptData
  \/ \E label \in Probes : GetItem(label)

SpecCrc == Init /\ [][NextCrc]_vars

(***************************************************************************)
(* A reader over a bytearray of the written bytes, one value of which is   *)
(* written in place.                                                       *)
(***************************************************************************)
OpenBytearray == \E crc \in BOOLEAN : Reopen("bytearray", crc)

SetCall ==
  /\ Written
  /\ \E label \in Probes, val \in NewValues : SetItem(label, val)

NextSet ==
  \/ OpenBytearray
  \/ SetCall
  \/ \E label \in Probes : GetItem(label)

SpecSet == Init /\ [][NextSet]_vars

(***************************************************************************)
(* validate_buffer on the written bytes with one byte changed: a byte of   *)
(* the magic, the version or the tag, the low byte of a label or of an     *)
(* offset, or any byte of the data region.                                 *)
(***************************************************************************)
CorruptPositions ==
  (0..11) \cup { HEADER_LENGTH + 8 * j : j \in 0..(2 * Len(data) - 1) }
          \cup (DataStart(data)..(Len(buffer) - 1))

CorruptAny ==
  /\ Written
  /\ \E pos \in CorruptPositions :
       \E b \in Changed(buffer[pos + 1]) : OpenChanged(pos, b)

NextValidate ==
  \/ CorruptAny
  \/ Validate

SpecValidate == Init /\ [][NextValidate]_vars

(***************************************************************************)
(* IntMap (intmap.py): labels to unsigned integers, the value in the       *)
(* second column of the index.  The reader keeps its state in the same     *)
(* attributes: buffer, _header and _index; _index holds the numpy array,   *)
(* its rows and whether it can be written to.                              *)
(***************************************************************************)
IntValues == {5, 7}        \* the values of a dict
IntNewValues == {8}        \* the value written in place

IntMap_MAGIC_NUMBER == <<105, 110, 116, 109>>   \* b"intm"
IntMap_FORMAT_VERSION == 0
IntMap_HEADER_LENGTH == 10

\* the dicts an IntMap is built from, given as their items
IntDicts ==
  UNION { { Tuple([j \in 1..Cardinality(S) |-> <<Ascending(S)[j], f[Ascending(S)[j]]>>]) :
              f \in [S -> IntValues] } : S \in SUBSET Labels }

\* labels.tobytes('C') with the rows in slot order
IntMap_rows_tobytes(rows) ==
  Concat(Tuple([j \in 1..Len(rows) |-> to_bytes(rows[j][1], 8) \o to_bytes(rows[j][2], 8)]))

\* IntMap.dict2buf(data)
IntMap_dict2buf(d) ==
  LET sorted == SortAsc(Tuple([i \in 1..Len(d) |-> d[i][1]]))
      layout == eytzinger_sort_indices(Len(d))
      labels == Tuple([j \in 1..Len(d) |->
                         <<sorted[layout[j] + 1], DictGet(d, sorted[layout[j] + 1])>>])
      N == Len(d)
      head == IntMap_MAGIC_NUMBER \o <<IntMap_FORMAT_VERSION>> \o to_bytes(3, 1)
                \o to_bytes(N, 4)
  IN IF N = 0 THEN head ELSE head \o IntMap_rows_tobytes(labels)

\* header property
IntMap_header ==
  IF _header # None THEN _header[1] ELSE SliceTo(buffer, IntMap_HEADER_LENGTH)

\* __len__
IntMap_len == from_bytes(Slice(IntMap_header, 6, 10))

\* index(): the cached array, or np.frombuffer over the slice of the buffer; the
\* slice of a bytearray is a bytearray of its own, over which the array can be
\* written to, the slice of anything else is bytes
IntMap_index ==
  IF _index # None THEN Ok(_index[1])
  ELSE LET N == IntMap_len
           index_length == 2 * N * 8
           raw == Slice(buffer, IntMap_HEADER_LENGTH, index_length + IntMap_HEADER_LENGTH)
       IN IF Len(raw) # index_length THEN Raise("ValueError")
          ELSE Ok([rows |-> frombuffer(raw, N), writeable |-> (kind = "bytearray")])

\* getindex returning the first column
IntMap_getindex_Label(i) == Ok(IntMap_index.value[1].rows[i + 1][1])

\* getindex(i)
IntMap_getindex(i) == Ok(IntMap_index.value[1].rows[i + 1][2])

\* find_index_position(label)
IntMap_find_index_position(label) ==
  IF IntMap_index.status # "ok" THEN Raise(IntMap_index.status)
  ELSE LET idx == IntMap_index.value[1].rows
           N == Len(idx)
           k == eytzinger_binary_search(label, idx)
       IN IF N = 0 THEN [status |-> "ok", value |-> None]
          ELSE IF k >= 0 /\ k < N THEN Ok(k)
          ELSE [status |-> "ok", value |-> None]

\* get(label, *args)
IntMap_get(label, args) ==
  LET pos == IntMap_find_index_position(label)
  IN IF pos.status # "ok" THEN pos
     ELSE IF pos.value = None
       THEN (IF args # None THEN Ok(args[1])
             ELSE [status |-> "ok", value |-> None])
     ELSE IntMap_getindex(pos.value[1])

\* __contains__(label)
IntMap_contains(label) ==
  LET pos == IntMap_find_index_position(label)
  IN IF pos.status # "ok" THEN pos ELSE Ok(pos.value # None)

\* __getitem__(label)
IntMap_getitem(label) ==
  LET pos == IntMap_find_index_position(label)
  IN IF pos.status # "ok" THEN pos
     ELSE IF pos.value # None THEN IntMap_getindex(pos.value[1])
     ELSE Raise("KeyError")

\* keys()
IntMap_keys ==
  IF IntMap_index.status # "ok" THEN Raise(IntMap_index.status)
  ELSE LET idx == IntMap_index.value[1].rows
       IN Ok(Tuple([j \in 1..Len(idx) |-> idx[j][1]]))

\* items(): range(len(self)) over index()
IntMap_items ==
  IF IntMap_index.status # "ok" THEN Raise(IntMap_index.status)
  ELSE LET idx == IntMap_index.value[1].rows
       IN Ok(Tuple([j \in 1..IntMap_len |-> <<idx[j][1], idx[j][2]>>]))

\* todict(), as the set of its <<label, value>> pairs
IntMap_todict ==
  IF IntMap_items.status # "ok" THEN IntMap_items
  ELSE LET its == IntMap_items.value[1]
       IN Ok({ its[j] : j \in { j \in 1..Len(its) :
                 \A l \in (j + 1)..Len(its) : its[l][1] # its[j][1] } })

\* setindex that writes the first column
IntMap_setindex_Label(i, ct) ==
  LET arr == IntMap_index.value[1]
  IN IF ~arr.writeable THEN [status |-> "ValueError", index |-> Some(arr)]
     ELSE [status |-> "ok",
           index |-> Some([arr EXCEPT !.rows[i + 1][1] = ct])]

\* setindex(i, ct): [status, index], the cached array as the call leaves it;
\* index[i,1] = ct raises ValueError on an array that cannot be written to
IntMap_setindex(i, ct) ==
  LET arr == IntMap_index.value[1]
  IN IF ~arr.writeable THEN [status |-> "ValueError", index |-> Some(arr)]
     ELSE [status |-> "ok",
           index |-> Some([arr EXCEPT !.rows[i + 1][2] = ct])]

\* __setitem__(label, ct): [status, index]
IntMap_setitem(label, ct) ==
  LET pos == IntMap_find_index_position(label)
      cached == IF IntMap_index.status = "ok" THEN Some(IntMap_index.value[1]) ELSE _index
  IN IF pos.status # "ok" THEN [status |-> pos.status, index |-> cached]
     ELSE IF pos.value # None THEN IntMap_setindex(pos.value[1], ct)
     ELSE [status |-> "KeyError", index |-> cached]

\* what a call that went through index() leaves in the caches
IntMap_Caches ==
  /\ _header' = IF _index = None THEN Some(IntMap_header) ELSE _header
  /\ _index' = IF IntMap_index.status = "ok" THEN Some(IntMap_index.value[1]) ELSE _index

\* im[label]
IntMap_GetItem(label) ==
  /\ result' = Res("getitem", label, None, IntMap_getitem(label))
  /\ IntMap_Caches
  /\ UNCHANGED <<threads, data, method, buffer, kind, check_crc, _compress>>

\* im.get(label) and im.get(label, default)
IntMap_Get(label, args) ==
  /\ result' = Res("get", label, args, IntMap_get(label, args))
  /\ IntMap_Caches
  /\ UNCHANGED <<threads, data, method, buffer, kind, check_crc, _compress>>

\* label in im
IntMap_Contains(label) ==
  /\ result' = Res("contains", label, None, IntMap_contains(label))
  /\ IntMap_Caches
  /\ UNCHANGED <<threads, data, method, buffer, kind, check_crc, _compress>>

\* len(im)
IntMap_LenCall ==
  /\ result' = Res("len", -1, None, Ok(IntMap_len))
  /\ _header' = Some(IntMap_header)
  /\ UNCHANGED <<threads, data, method, buffer, kind, check_crc, _index, _compress>>

\* list(im.keys()), list(im)
IntMap_Keys ==
  /\ result' = Res("keys", -1, None, IntMap_keys)
  /\ IntMap_Caches
  /\ UNCHANGED <<threads, data, method, buffer, kind, check_crc, _compress>>

\* im.todict()
IntMap_ToDict ==
  /\ result' = Res("todict", -1, None, IntMap_todict)
  /\ _header' = Some(IntMap_header)
  /\ _index' = IF IntMap_index.status = "ok" THEN Some(IntMap_index.value[1]) ELSE _index
  /\ UNCHANGED <<threads, data, method, buffer, kind, check_crc, _compress>>

\* im[label] = ct
IntMap_SetItem(label, ct) ==
  LET r == IntMap_setitem(label, ct)
  IN /\ result' = Res("setitem", label, Some(ct), [status |-> r.status, value |-> None])
     /\ _header' = IF _index = None THEN Some(IntMap_header) ELSE _header
     /\ _index' = r.index
     /\ UNCHANGED <<threads, data, method, buffer, kind, check_crc, _compress>>

\* im.buffer = bytearray(im.buffer)
IntMap_Bytearray ==
  /\ kind' = "bytearray"
  /\ result' = Res("bytearray", -1, None, [status |-> "ok", value |-> None])
  /\ UNCHANGED <<threads, data, method, buffer, check_crc, _header, _index, _compress>>

\* IntMap(data): the reader built from a dict
IntMap_Init ==
  /\ data \in IntDicts
  /\ method = None
  /\ check_crc = TRUE
  /\ buffer = IntMap_dict2buf(data)
  /\ kind = "bytes"
  /\ _header = None
  /\ _index = None
  /\ _compress = None
  /\ result = Res("init", -1, None, [status |-> "ok", value |-> None])
  /\ threads = NoLookups

IntMap_Lookup ==
  \/ \E label \in Probes : IntMap_GetItem(label)
  \/ \E label \in Probes, args \in {None, Some(0)} : IntMap_Get(label, args)
  \/ \E label \in Probes : IntMap_Contains(label)

IntMap_Next ==
  \/ IntMap_Lookup
  \/ IntMap_LenCall
  \/ IntMap_Keys
  \/ IntMap_ToDict
  \/ IntMap_Bytearray

SpecIntMap == IntMap_Init /\ [][IntMap_Next]_vars

\* a reader whose buffer was made a bytearray, written to in place
IntMap_NextSet ==
  \/ IntMap_Bytearray
  \/ \E label \in Probes, ct \in IntNewValues : IntMap_SetItem(label, ct)
  \/ \E label \in Probes : IntMap_GetItem(label)
  \/ IntMap_Keys
  \/ IntMap_LenCall

SpecIntMapSet == IntMap_Init /\ [][IntMap_NextSet]_vars

(***************************************************************************)
(* Writing again what was read: the dict that todict returns lists the     *)
(* items in index order, and a dict literal lists them in any order.       *)
(***************************************************************************)
RECURSIVE Orders(_)
\* every order in which a dict can list the pairs S
Orders(S) ==
  IF S = {} THEN {<<>>}
  ELSE UNION { { <<x>> \o t : t \in Orders(S \ {x}) } : x \in S }

\* the dicts of Dicts, their pairs listed in every order
DictsAnyOrder == UNION { Orders({ d[i] : i \in 1..Len(d) }) : d \in Dicts }

\* MapBuffer(data, compress=method) for a dict that lists its pairs in any order
InitAnyOrder ==
  /\ data \in DictsAnyOrder
  /\ method \in COMPRESSION_TYPES
  /\ check_crc = TRUE
  /\ buffer = dict2buf(data, method)
  /\ kind = "bytes"
  /\ _header = None
  /\ _index = None
  /\ _compress = None
  /\ result = Res("init", -1, None, [status |-> "ok", value |-> None])
  /\ threads = NoLookups

\* MapBuffer(mbuf.todict(), compress=mbuf.compress).tobytes()
Rewrite ==
  /\ result' = Res("rewrite", -1, None,
                   IF items.status # "ok" THEN items
                   ELSE Ok(dict2buf(items.value[1], compress)))
  /\ _header' = HeaderRead
  /\ _index' = IndexRead
  /\ _compress' = CompressRead
  /\ UNCHANGED <<threads, data, method, buffer, kind, check_crc>>

\* MapBuffer(d, compress=method) for d the same pairs listed in another order
Reorder(d) ==
  /\ data' = d
  /\ buffer' = dict2buf(d, method)
  /\ kind' = "bytes"
  /\ _header' = None
  /\ _index' = None
  /\ _compress' = None
  /\ result' = Res("init", -1, None, [status |-> "ok", value |-> None])
  /\ UNCHANGED <<threads, method, check_crc>>

NextRewrite ==
  \/ Rewrite
  \/ ToDict
  \/ \E d \in Orders({ data[i] : i \in 1..Len(data) }) : Reorder(d)

SpecRewrite == InitAnyOrder /\ [][NextRewrite]_vars

(***************************************************************************)
(* eytzinger_sort on its own, called as MapInt.dict2buf calls it: on the   *)
(* sorted labels and an output array of zeros.                             *)
(***************************************************************************)
\* the dicts whose labels are sorted: labels from 1 up, so that no label is
\* the zero the output array starts with
SortDicts ==
  { Tuple([j \in 1..Cardinality(S) |-> <<Ascending(S)[j], 5>>]) :
      S \in SUBSET (1..MaxSortLen) }

\* np.zeros((len(labels),))
zeros(n) == Tuple([j \in 1..n |-> 0])

\* a dict, before it is laid out
InitSort ==
  /\ data \in SortDicts
  /\ method = None
  /\ check_crc = TRUE
  /\ buffer = <<>>
  /\ kind = "bytes"
  /\ _header = None
  /\ _index = None
  /\ _compress = None
  /\ result = Res("init", -1, None, [status |-> "ok", value |-> None])
  /\ threads = NoLookups

\* labels.sort(); out = np.zeros(...); eytzinger_sort(labels, out)
EytzingerSort ==
  LET labels == SortAsc(Tuple([j \in 1..Len(data) |-> data[j][1]]))
  IN /\ result' = Res("eytzinger_sort", -1, Some(labels),
                      Ok(eytzinger_sort(labels, zeros(Len(labels)), 0, 1)))
     /\ UNCHANGED <<threads, data, method, buffer, kind, check_crc, _header, _index, _compress>>

NextSort == EytzingerSort

SpecSort == InitSort /\ [][NextSort]_vars

(***************************************************************************)
(* The search on its own: readers over indexes of up to MaxSearchKey + 1   *)
(* labels, the values empty, the dict listing its labels in descending     *)
(* order.                                                                  *)
(***************************************************************************)
SearchProbes == 0..(MaxSearchKey + 1)

SearchDicts ==
  { Tuple([j \in 1..Cardinality(S) |->
             <<Ascending(S)[Cardinality(S) + 1 - j], <<>> >>]) :
      S \in SUBSET (0..MaxSearchKey) }

\* MapBuffer(data)
InitSearch ==
  /\ data \in SearchDicts
  /\ method = None
  /\ check_crc = TRUE
  /\ buffer = dict2buf(data, method)
  /\ kind = "bytes"
  /\ _header = None
  /\ _index = None
  /\ _compress = None
  /\ result = Res("init", -1, None, [status |-> "ok", value |-> None])
  /\ threads = NoLookups

\* mbuf.find_index_position(label)
FindIndexPosition(label) ==
  /\ result' = Res("find_index_position", label, None, find_index_position(label))
  /\ _header' = IF _index = None THEN HeaderRead ELSE _header
  /\ _index' = IndexRead
  /\ UNCHANGED <<threads, data, method, buffer, kind, check_crc, _compress>>

NextSearch ==
  \/ \E label \in SearchProbes : FindIndexPosition(label)
  \/ \E label \in SearchProbes : Contains(label)
  \/ LenCall

SpecSearch == InitSearch /\ [][NextSearch]_vars

(***************************************************************************)
(* dict2buf on dicts whose keys are any Python objects: a key is what      *)
(* int() makes of it, and whether it equals (and hashes as) that integer:  *)
(* 1 does, 1.5 and "1" do not.                                             *)
(***************************************************************************)
KeyObjects ==
  Tuple([j \in 1..(2 * (MaxKey + 1)) |-> [int |-> (j - 1) \div 2, exact |-> (j % 2 = 1)]])

\* the dicts over these keys; no two keys of a dict are equal
ObjectDicts ==
  UNION { { Tuple([j \in 1..Cardinality(S) |->
                     <<KeyObjects[Ascending(S)[j]], f[Ascending(S)[j]]>>]) :
              f \in [S -> Values] } : S \in SUBSET (1..Len(KeyObjects)) }

\* dict2buf(data, compress) on such a dict: [status, value]. labels holds
\* int(lbl) for every key; bytes_data is keyed by the keys themselves, and
\* bytes_data[label] finds the key that equals the label or raises KeyError
dict2buf_objects(d, compress_arg) ==
  LET labels == Tuple([j \in 1..Len(d) |-> d[j][1].int])
      found(label) == \E j \in 1..Len(d) : d[j][1].int = label /\ d[j][1].exact
      bytes_data(label) ==
        d[CHOOSE j \in 1..Len(d) : d[j][1].int = label /\ d[j][1].exact][2]
  IN IF \E j \in 1..Len(d) : ~found(labels[j]) THEN Raise("KeyError")
     ELSE Ok(dict2buf(Tuple([j \in 1..Len(d) |-> <<labels[j], bytes_data(labels[j])>>]),
                      compress_arg))

\* a dict, before MapBuffer(data) is called
InitBuild ==
  /\ data \in ObjectDicts
  /\ method = None
  /\ check_crc = TRUE
  /\ buffer = <<>>
  /\ kind = "bytes"
  /\ _header = None
  /\ _index = None
  /\ _compress = None
  /\ result = Res("init", -1, None, [status |-> "ok", value |-> None])
  /\ threads = NoLookups

\* MapBuffer(data): self.buffer = self.dict2buf(data, compress)
Build ==
  LET r == dict2buf_objects(data, method)
  IN /\ result' = Res("dict2buf", -1, None, [status |-> r.status, value |-> None])
     /\ buffer' = IF r.status = "ok" THEN r.value[1] ELSE buffer
     /\ UNCHANGED <<threads, data, method, kind, check_crc, _header, _index, _compress>>

NextBuild == Build

SpecBuild == InitBuild /\ [][NextBuild]_vars

(***************************************************************************)
(* Lookups issued by several threads on one reader.  A step is one read or *)
(* one write of an attribute of the reader (self._header, self._index,     *)
(* self._compress) together with the thread's own computation around it;   *)
(* the buffer is written by nobody.                                        *)
(***************************************************************************)
ThreadOps == {"getitem", "get", "contains"}
ThreadLabels == {0, MaxKey + 1}          \* a stored label and one that is not

\* the dicts the threads read: empty, or with the labels 0 and MaxKey
ThreadDicts == { d \in Dicts : Len(d) = 0 \/ { d[i][1] : i \in 1..Len(d) } = {0, MaxKey} }

Thread(t, r) == threads' = [threads EXCEPT ![t] = r]

\* a thread calls mbuf[label], mbuf.get(label) or label in mbuf: all three
\* start with find_index_position, which starts with index()
Call(t, op, label) ==
  /\ threads[t].pc = "idle"
  /\ Thread(t, [IdleThread EXCEPT !.pc = "index_check", !.op = op, !.label = label,
                                  !.phase = "find"])
  /\ UNCHANGED <<data, method, buffer, kind, check_crc, _header, _index, _compress, result>>

\* index(): if self._index is not None
IndexCheck(t) ==
  /\ threads[t].pc = "index_check"
  /\ Thread(t, IF _index # None
                 THEN [threads[t] EXCEPT !.pc = "index_return"]
                 ELSE [threads[t] EXCEPT !.pc = "header_check", !.cont = "index_store"])
  /\ UNCHANGED <<data, method, buffer, kind, check_crc, _header, _index, _compress, result>>

\* index(): return self._index
IndexReturn(t) ==
  /\ threads[t].pc = "index_return"
  /\ Thread(t, [threads[t] EXCEPT !.idx = _index,
                  !.pc = IF threads[t].phase = "find" THEN "search" ELSE "slice"])
  /\ UNCHANGED <<data, method, buffer, kind, check_crc, _header, _index, _compress, result>>

\* header: if self._header is not None
HeaderCheck(t) ==
  /\ threads[t].pc = "header_check"
  /\ Thread(t, [threads[t] EXCEPT
                  !.pc = IF _header # None THEN "header_return" ELSE "header_store"])
  /\ UNCHANGED <<data, method, buffer, kind, check_crc, _header, _index, _compress, result>>

\* header: self._header = self.buffer[:HEADER_LENGTH]
HeaderStore(t) ==
  /\ threads[t].pc = "header_store"
  /\ _header' = Some(SliceTo(buffer, HEADER_LENGTH))
  /\ Thread(t, [threads[t] EXCEPT !.pc = "header_return"])
  /\ UNCHANGED <<data, method, buffer, kind, check_crc, _index, _compress, result>>

\* header: return self._header
HeaderReturn(t) ==
  /\ threads[t].pc = "header_return"
  /\ Thread(t, [threads[t] EXCEPT !.hdr = _header, !.pc = threads[t].cont])
  /\ UNCHANGED <<data, method, buffer, kind, check_crc, _header, _index, _compress, result>>

\* an index() that publishes the array before its offsets are read
IndexStore_Unfilled(t) ==
  /\ threads[t].pc = "index_store"
  /\ LET N == from_bytes(Slice(threads[t].hdr[1], 12, 16))
         raw == Slice(buffer, HEADER_LENGTH, 2 * N * 8 + HEADER_LENGTH)
         rows == frombuffer(raw, N)
     IN IF _index = None
          THEN /\ _index' = Some(Tuple([j \in 1..N |-> <<rows[j][1], 0>>]))
               /\ Thread(t, threads[t])
          ELSE /\ _index' = Some(rows)
               /\ Thread(t, [threads[t] EXCEPT !.pc = "index_return"])
  /\ UNCHANGED <<data, method, buffer, kind, check_crc, _header, _compress, result>>

\* index(): N = len(self), the slice of the buffer, self._index = np.frombuffer(...)
IndexStore(t) ==
  /\ threads[t].pc = "index_store"
  /\ LET N == from_bytes(Slice(threads[t].hdr[1], 12, 16))
         index_length == 2 * N * 8
         raw == Slice(buffer, HEADER_LENGTH, index_length + HEADER_LENGTH)
     IN IF Len(raw) # index_length
          THEN /\ Thread(t, [threads[t] EXCEPT !.pc = "done", !.out = Some(Raise("ValueError"))])
               /\ UNCHANGED _index
          ELSE /\ _index' = Some(frombuffer(raw, N))
               /\ Thread(t, [threads[t] EXCEPT !.pc = "index_return"])
  /\ UNCHANGED <<data, method, buffer, kind, check_crc, _header, _compress, result>>

\* find_index_position on the array index() returned, and what get,
\* __getitem__ and __contains__ do with the position
Search(t) ==
  /\ threads[t].pc = "search"
  /\ LET idx == threads[t].idx[1]
         N == Len(idx)
         k == eytzinger_binary_search(threads[t].label, idx)
         found == N # 0 /\ k >= 0 /\ k < N
         op == threads[t].op
     IN Thread(t,
          IF op = "contains"
            THEN [threads[t] EXCEPT !.pc = "done", !.out = Some(Ok(found))]
          ELSE IF ~found
            THEN [threads[t] EXCEPT !.pc = "done",
                    !.out = Some(IF op = "getitem" THEN Raise("KeyError")
                                 ELSE [status |-> "ok", value |-> None])]
          ELSE [threads[t] EXCEPT !.pc = "index_check", !.phase = "getindex",
                                  !.pos = Some(k)])
  /\ UNCHANGED <<data, method, buffer, kind, check_crc, _header, _index, _compress, result>>

\* getindex: the offsets and the slice of the buffer; then self.format_version
\* reads the header
SliceValue(t) ==
  /\ threads[t].pc = "slice"
  /\ LET idx == threads[t].idx[1]
         N == Len(idx)
         i == threads[t].pos[1]
         offset == idx[i + 1][2]
         raw == IF i < N - 1 THEN Slice(buffer, offset, idx[i + 2][2])
                             ELSE SliceFrom(buffer, offset)
     IN Thread(t, [threads[t] EXCEPT !.value = Some(raw), !.pc = "header_check",
                                     !.cont = "crc"])
  /\ UNCHANGED <<data, method, buffer, kind, check_crc, _header, _index, _compress, result>>

\* getindex: the trailer is stripped and compared
Crc(t) ==
  /\ threads[t].pc = "crc"
  /\ LET version == threads[t].hdr[1][Len(MAGIC_NUMBERS) + 1]
         raw == threads[t].value[1]
         stored_check_value == from_bytes32(LastN(raw, 4))
         value == IF version = 1 THEN DropLastN(raw, 4) ELSE raw
     IN Thread(t,
          IF version = 1 /\ check_crc /\ crc32c(value) # stored_check_value
            THEN [threads[t] EXCEPT !.pc = "done", !.out = Some(Raise("ValidationError"))]
            ELSE [threads[t] EXCEPT !.pc = "compress_check", !.value = Some(value)])
  /\ UNCHANGED <<data, method, buffer, kind, check_crc, _header, _index, _compress, result>>

\* compress: if self._compress
CompressCheck(t) ==
  /\ threads[t].pc = "compress_check"
  /\ Thread(t, IF _compress # None
                 THEN [threads[t] EXCEPT !.pc = "compress_return"]
                 ELSE [threads[t] EXCEPT !.pc = "header_check", !.cont = "compress_store"])
  /\ UNCHANGED <<data, method, buffer, kind, check_crc, _header, _index, _compress, result>>

\* compress: self._compress = compression.normalize_encoding(self.header[8:12])
CompressStore(t) ==
  /\ threads[t].pc = "compress_store"
  /\ _compress' = normalize_encoding(Some(Slice(threads[t].hdr[1], 8, 12)))
  /\ Thread(t, [threads[t] EXCEPT !.pc = "compress_return"])
  /\ UNCHANGED <<data, method, buffer, kind, check_crc, _header, _index, result>>

\* compress: return self._compress; getindex decompresses and returns
CompressReturn(t) ==
  /\ threads[t].pc = "compress_return"
  /\ LET encoding == _compress
         value == threads[t].value[1]
         d == compression_decompress(value, encoding)
     IN Thread(t, [threads[t] EXCEPT !.pc = "done",
                     !.out = Some(IF encoding = None THEN Ok(value)
                                  ELSE IF d.status = "ok" THEN Ok(d.value)
                                  ELSE Raise(d.status))])
  /\ UNCHANGED <<data, method, buffer, kind, check_crc, _header, _index, _compress, result>>

\* the call returns to the thread's caller
Return(t) ==
  /\ threads[t].pc = "done"
  /\ Thread(t, IdleThread)
  /\ result' = Res(threads[t].op, threads[t].label, None, threads[t].out[1])
  /\ UNCHANGED <<data, method, buffer, kind, check_crc, _header, _index, _compress>>

\* MapBuffer(data, compress=method), shared by the threads
InitThreads ==
  /\ data \in ThreadDicts
  /\ method \in {None, Some(STR_gzip)}
  /\ check_crc = TRUE
  /\ buffer = dict2buf(data, method)
  /\ kind = "bytes"
  /\ _header = None
  /\ _index = None
  /\ _compress = None
  /\ result = Res("init", -1, None, [status |-> "ok", value |-> None])
  /\ threads = NoLookups

NextThreads ==
  \E t \in Threads :
    \/ \E op \in ThreadOps, label \in ThreadLabels : Call(t, op, label)
    \/ IndexCheck(t)
    \/ IndexReturn(t)
    \/ HeaderCheck(t)
    \/ HeaderStore(t)
    \/ HeaderReturn(t)
    \/ IndexStore(t)
    \/ Search(t)
    \/ SliceValue(t)
    \/ Crc(t)
    \/ CompressCheck(t)
    \/ CompressStore(t)
    \/ CompressReturn(t)
    \/ Return(t)

SpecThreads == InitThreads /\ [][NextThreads]_vars

(***************************************************************************)
(* What the claims are stated with: the dict as a mapping.                 *)
(***************************************************************************)
KeysOf(d) == { d[i][1] : i \in 1..Len(d) }
PairsOf(d) == { d[i] : i \in 1..Len(d) }
Outcome == [status |-> result.status, value |-> result.value]
LookupOps == {"getitem", "get", "contains"}

(***************************************************************************)
(* C1  Round-trip: a reader over dict2buf(M) returns M[k] from reader[k]   *)
(* for every key k of M, and for every k not in M reports `k in reader`    *)
(* as false and raises KeyError from reader[k], for every compression      *)
(* method.                                                                 *)
(***************************************************************************)
C1_RoundTrip ==
  /\ result.op = "getitem" =>
       Outcome = IF result.label \in KeysOf(data)
                   THEN Ok(DictGet(data, result.label))
                   ELSE Raise("KeyError")
  /\ result.op = "contains" => Outcome = Ok(result.label \in KeysOf(data))

C1_Witness ==
  /\ result.op = "getitem"
  /\ Len(data) = 3
  /\ method = Some(STR_br)
  /\ result.label = data[3][1]
  /\ result.value = Some(<<255, 104>>)

(***************************************************************************)
(* C2  Key-set equality: keys() yields every key of M exactly once and no  *)
(* other key, len(reader) = |M|, and todict() equals M.                    *)
(***************************************************************************)
C2_KeySetEquality ==
  /\ result.op = "keys" =>
       /\ result.status = "ok"
       /\ Len(result.value[1]) = Len(data)
       /\ { result.value[1][j] : j \in 1..Len(result.value[1]) } = KeysOf(data)
  /\ result.op = "len" => Outcome = Ok(Len(data))
  /\ result.op = "todict" => Outcome = Ok(PairsOf(data))

C2_Witness ==
  /\ result.op = "todict"
  /\ Len(data) = 3
  /\ result.status = "ok"
  /\ Cardinality(result.value[1]) = 3

(***************************************************************************)
(* C3  Empty-map identity: building from the empty dict gives exactly the  *)
(* 16-byte header with N = 0; the reader reports len 0, iterates no keys,  *)
(* validate() returns True and every lookup by [] raises KeyError.         *)
(***************************************************************************)
\* the bytes 8..11 of the header, written out for each method
TagOf(m) ==
  IF m = None THEN <<110, 111, 110, 101>>
  ELSE IF m = Some(STR_gzip) THEN <<103, 122, 105, 112>>
  ELSE IF m = Some(STR_br) THEN <<48, 48, 98, 114>>
  ELSE IF m = Some(STR_zstd) THEN <<122, 115, 116, 100>>
  ELSE <<108, 122, 109, 97>>

C3_EmptyMap ==
  data = <<>> =>
    /\ buffer = <<109, 97, 112, 98, 117, 102, 114, 1>> \o TagOf(method) \o <<0, 0, 0, 0>>
    /\ result.op = "len" => Outcome = Ok(0)
    /\ result.op = "keys" => Outcome = Ok(<<>>)
    /\ result.op = "validate" => Outcome = Ok(TRUE)
    /\ result.op = "getitem" => Outcome = Raise("KeyError")

C3_Witness ==
  /\ data = <<>>
  /\ method = Some(STR_lzma)
  /\ result.op = "getitem"
  /\ result.status = "KeyError"
  /\ _index = Some(<<>>)

(***************************************************************************)
(* C4  CRC detection: in a version-1 buffer read with check_crc enabled,   *)
(* after any single byte of the data region is changed, the lookup of the  *)
(* key that owns the blob holding that byte raises ValidationError.        *)
(***************************************************************************)
\* the 0-based position at which the buffer differs from what was written
ChangedPos(written) == (CHOOSE p \in 1..Len(buffer) : buffer[p] # written[p]) - 1

\* the label whose blob, in what was written, holds the byte at pos
OwnerOf(written, pos) ==
  LET N == Len(data)
      idx == frombuffer(Slice(written, HEADER_LENGTH, DataStart(data)), N)
      j == CHOOSE j \in 1..N : /\ idx[j][2] <= pos
                               /\ (j < N => pos < idx[j + 1][2])
  IN idx[j][1]

\* the buffer has a changed byte, in the blob of label
ChangedIn(label) ==
  LET written == dict2buf(data, method)
  IN buffer # written /\ label = OwnerOf(written, ChangedPos(written))

C4_CrcDetection ==
  (/\ result.op = "getitem"
   /\ result.label \in KeysOf(data)
   /\ check_crc
   /\ format_version = 1
   /\ ChangedIn(result.label))
    => result.status = "ValidationError"

C4_Witness ==
  /\ result.op = "getitem"
  /\ Len(data) = 3
  /\ method = Some(STR_gzip)
  /\ result.label = data[3][1]
  /\ ChangedIn(result.label)
  /\ buffer[Len(buffer)] # dict2buf(data, method)[Len(buffer)]
  /\ result.status = "ValidationError"

(***************************************************************************)
(* C5  get(key) with no default on a key that is not stored raises         *)
(* KeyError; it never returns a value for an absent key.                   *)
(***************************************************************************)
C5_GetAbsentRaises ==
  (result.op = "get" /\ result.arg = None /\ result.label \notin KeysOf(data))
    => result.status = "KeyError"

(***************************************************************************)
(* C6  mbuf[key] = value on a stored key succeeds only if the new encoded  *)
(* blob (compressed value plus the 4-byte trailer) is as long as the       *)
(* existing blob; when the lengths differ it raises the length error and   *)
(* leaves every byte of the buffer, and so every later lookup, unchanged.  *)
(***************************************************************************)
\* len(compress(value)) + 4
EncodedLength(val) == Len(compression_compress(val, normalize_encoding(method)).value) + 4
\* the length of the blob written for label
ExistingLength(label) == Len(Blob(data, normalize_encoding(method), label))

C6_SetLengthCheck ==
  /\ (result.op = "setitem" /\ result.label \in KeysOf(data)) =>
       /\ result.status = "ok" =>
            EncodedLength(result.arg[1]) = ExistingLength(result.label)
       /\ EncodedLength(result.arg[1]) # ExistingLength(result.label) =>
            (result.status = "ValueError" /\ Written)
  /\ (Written /\ result.op = "getitem") =>
       Outcome = IF result.label \in KeysOf(data)
                   THEN Ok(DictGet(data, result.label))
                   ELSE Raise("KeyError")

C6_Witness ==
  /\ result.op = "setitem"
  /\ kind = "bytearray"
  /\ Len(data) = 3
  /\ result.label = data[3][1]
  /\ DictGet(data, result.label) = <<255, 104>>
  /\ result.arg = Some(<<97>>)
  /\ result.status = "ValueError"
  /\ Written

(***************************************************************************)
(* C7  A successful mbuf[key] = value on a version-1 buffer leaves the     *)
(* blob of key as compress(value) followed by its crc32c, the length of    *)
(* the buffer and the blobs of the other keys unchanged, and mbuf[key]     *)
(* with CRC checking enabled returns value.                                *)
(***************************************************************************)
\* the dict with value stored under a key that it has
DictSet(d, key, val) ==
  Tuple([i \in 1..Len(d) |-> IF d[i][1] = key THEN <<key, val>> ELSE d[i]])

C7_SetWritesTrailer ==
  (result.op = "setitem" /\ result.status = "ok" /\ format_version = 1) =>
    /\ buffer = dict2buf(DictSet(data, result.label, result.arg[1]), method)
    /\ check_crc => __getitem__(result.label) = Ok(result.arg[1])

(***************************************************************************)
(* C8  validate() on the reader built from any dict, with any compression  *)
(* method, returns True and raises nothing.                                *)
(***************************************************************************)
C8_WriterOutputValidates ==
  result.op = "validate" => Outcome = Ok(TRUE)

C8_Witness ==
  /\ result.op = "validate"
  /\ Len(data) = 3
  /\ method = Some(STR_zstd)
  /\ result.value = Some(TRUE)

(***************************************************************************)
(* C9  validate() returns True if and only if the invariants of the data   *)
(* model hold for the buffer: magic and version, a recognized tag, length  *)
(* at least 16 + 16N, N pairwise distinct keys, offsets within             *)
(* [16 + 16N, length] and monotonic, a valid CRC-32C trailer on every      *)
(* version-1 blob, and length exactly 16 when N = 0.                       *)
(***************************************************************************)
DataModelInvariants ==
  LET N == from_bytes(Slice(buffer, 12, 16))
      idx == frombuffer(Slice(buffer, HEADER_LENGTH, HEADER_LENGTH + 16 * N), N)
      end(j) == IF j < N THEN idx[j + 1][2] ELSE Len(buffer)
      blob(j) == Slice(buffer, idx[j][2], end(j))
  IN /\ Len(buffer) >= HEADER_LENGTH
     /\ SliceTo(buffer, 7) = MAGIC_NUMBERS
     /\ buffer[8] \in {0, 1}
     /\ normalize_encoding(Some(Slice(buffer, 8, 12))) \in COMPRESSION_TYPES
     /\ Len(buffer) >= HEADER_LENGTH + 16 * N
     /\ N = 0 => Len(buffer) = HEADER_LENGTH
     /\ \A i, j \in 1..N : i # j => idx[i][1] # idx[j][1]
     /\ \A j \in 1..N : /\ idx[j][2] >= HEADER_LENGTH + 16 * N
                         /\ idx[j][2] <= end(j)
                         /\ end(j) <= Len(buffer)
     /\ buffer[8] = 1 =>
          \A j \in 1..N : /\ Len(blob(j)) >= 4
                           /\ crc32c(DropLastN(blob(j), 4)) = LastN(blob(j), 4)

C9_ValidateIffInvariants ==
  result.op = "validate" => (Outcome = Ok(TRUE) <=> DataModelInvariants)

(***************************************************************************)
(* C10  A reader over an object that has only slice reads of the written   *)
(* bytes answers every lookup by key, hit or miss, the key of the last     *)
(* index slot included, with the result the reader over the bytes gives.   *)
(***************************************************************************)
\* what a lookup of label in the dict gives; get on a miss gives the default
\* passed, None when there is none
Answer(op, label, arg) ==
  IF op = "contains" THEN Ok(label \in KeysOf(data))
  ELSE IF label \in KeysOf(data) THEN Ok(DictGet(data, label))
  ELSE IF op = "getitem" THEN Raise("KeyError")
  ELSE IF arg # None THEN Ok(arg[1])
  ELSE [status |-> "ok", value |-> None]

C10_SliceSource ==
  (kind \in {"bytes", "object"} /\ result.op \in LookupOps) =>
    Outcome = Answer(result.op, result.label, result.arg)

\* the value of the last index slot, read through the object
C10_Witness ==
  /\ kind = "object"
  /\ result.op = "getitem"
  /\ Len(data) = 3
  /\ _index # None
  /\ result.label = _index[1][3][1]
  /\ result.value = Some(<<255, 104>>)

(***************************************************************************)
(* C11  IntMap round-trip: for every dict M of unsigned integers, IntMap(M) *)
(* returns M[k] from im[k] and im.get(k) for every key k of M with k in im *)
(* true, has set(keys()) = set(M.keys()) and todict() = M, and for every k *)
(* not in M has k in im false and raises KeyError from im[k].              *)
(***************************************************************************)
C11_IntMapRoundTrip ==
  /\ result.op = "getitem" =>
       Outcome = IF result.label \in KeysOf(data)
                   THEN Ok(DictGet(data, result.label))
                   ELSE Raise("KeyError")
  /\ (result.op = "get" /\ result.label \in KeysOf(data)) =>
       Outcome = Ok(DictGet(data, result.label))
  /\ result.op = "contains" => Outcome = Ok(result.label \in KeysOf(data))
  /\ result.op = "keys" =>
       /\ result.status = "ok"
       /\ Len(result.value[1]) = Len(data)
       /\ { result.value[1][j] : j \in 1..Len(result.value[1]) } = KeysOf(data)
  /\ result.op = "todict" => Outcome = Ok(PairsOf(data))

C11_Witness ==
  /\ result.op = "get"
  /\ Len(data) = 3
  /\ result.label = data[3][1]
  /\ DictGet(data, result.label) = 7
  /\ result.value = Some(7)
  /\ _index # None

InKeyOrder(d) ==
  Tuple([j \in 1..Len(d) |->
           <<Ascending(KeysOf(d))[j], DictGet(d, Ascending(KeysOf(d))[j])>>])

C13_Idempotence ==
  /\ result.op = "rewrite" => Outcome = Ok(buffer)
  /\ buffer = dict2buf(InKeyOrder(data), method)

C13_Witness ==
  /\ result.op = "rewrite"
  /\ Len(data) = 3
  /\ data[1][1] > data[2][1]
  /\ data[2][1] < data[3][1]
  /\ method = Some(STR_br)
  /\ result.value = Some(buffer)

(***************************************************************************)
(* C15  Eytzinger permutation: for every ascending input of length N >= 0, *)
(* eytzinger_sort(inpt, output) returns N, having made N writes that leave *)
(* no slot of output unwritten (so each slot is written exactly once) and  *)
(* output a permutation of inpt, and the in-order walk of output as an     *)
(* implicit heap (slot k has children 2k and 2k+1) lists inpt, ascending.  *)
(***************************************************************************)
RECURSIVE InOrder(_, _)
InOrder(out, k) ==
  IF k > Len(out) THEN <<>>
  ELSE InOrder(out, 2 * k) \o <<out[k]>> \o InOrder(out, 2 * k + 1)

C15_EytzingerPermutation ==
  result.op = "eytzinger_sort" =>
    LET inpt == result.arg[1]
        N == Len(inpt)
        i == result.value[1][1]
        output == result.value[1][2]
    IN /\ result.status = "ok"
       /\ i = N
       /\ Len(output) = N
       /\ \A j \in 1..N : output[j] # 0
       /\ { output[j] : j \in 1..N } = { inpt[j] : j \in 1..N }
       /\ InOrder(output, 1) = inpt
       /\ \A j \in 1..(N - 1) : inpt[j] < inpt[j + 1]

C15_Witness ==
  /\ result.op = "eytzinger_sort"
  /\ result.arg = Some(<<1, 2, 3, 4, 5, 6>>)
  /\ result.value = Some(<<6, <<4, 2, 6, 1, 3, 5>> >>)

(***************************************************************************)
(* C16  Eytzinger search: on the index the writer lays out for N distinct  *)
(* keys, the search returns for every target T: the slot whose key is T    *)
(* when T is stored, not-found when it is not (below the minimum, above    *)
(* the maximum, N = 1 included); every slot the descent compares is in     *)
(* 0..N-1 and the slot left after the shift is in -1..N-1.                 *)
(***************************************************************************)
RECURSIVE DescentReads(_, _, _)
\* the slots the descent compares with the target
DescentReads(idx, label, k) ==
  IF k <= Len(idx)
    THEN {k - 1} \cup DescentReads(idx, label,
                                   2 * k + (IF idx[k][1] < label THEN 1 ELSE 0))
    ELSE {}

C16_EytzingerSearch ==
  /\ index.status = "ok"
  /\ LET idx == index.value[1]
         N == Len(idx)
     IN /\ N = Len(data)
        /\ \A T \in SearchProbes :
             LET k == eytzinger_binary_search(T, idx)
             IN /\ DescentReads(idx, T, 1) \subseteq 0..(N - 1)
                /\ ShiftFfsNot(EytzingerDescend(idx, T, 1)) - 1 \in -1..(N - 1)
                /\ T \in KeysOf(data) => (k \in 0..(N - 1) /\ idx[k + 1][1] = T)
                /\ T \notin KeysOf(data) => k = -1
        /\ result.op = "find_index_position" =>
             Outcome = IF result.label \in KeysOf(data)
                         THEN Ok(CHOOSE j \in 0..(N - 1) : idx[j + 1][1] = result.label)
                         ELSE [status |-> "ok", value |-> None]

C16_Witness ==
  /\ result.op = "find_index_position"
  /\ Len(data) = 5
  /\ result.label = 0
  /\ result.value = Some(3)
  /\ _index # None

\* not found: below the minimum, above the maximum, and in an index of one key
C16_WitnessAbsent ==
  /\ result.op = "find_index_position"
  /\ Len(data) = 1
  /\ result.label > data[1][1]
  /\ result.value = None

(***************************************************************************)
(* C17  Offset layout: in every buffer written for N >= 1 keys the offset  *)
(* of index slot 0 is 16 + 16N, the offset of each later slot is the       *)
(* offset of the slot before it plus the blob length of that slot's key,   *)
(* and the byte range from a slot's offset to the next slot's offset (to   *)
(* the end of the buffer for the last slot) holds the blob of the slot's   *)
(* key: the ranges are disjoint and cover the data region exactly.         *)
(***************************************************************************)
SlotEnd(idx, i) == IF i < Len(idx) THEN idx[i + 1][2] ELSE Len(buffer)

C17_OffsetLayout ==
  /\ index.status = "ok"
  /\ LET idx == index.value[1]
         N == Len(idx)
     IN N >= 1 =>
          /\ idx[1][2] = HEADER_LENGTH + 16 * N
          /\ \A i \in 1..N :
               /\ idx[i][2] < SlotEnd(idx, i)
               /\ SlotEnd(idx, i) = idx[i][2] + Len(Blob(data, method, idx[i][1]))
               /\ Slice(buffer, idx[i][2], SlotEnd(idx, i)) = Blob(data, method, idx[i][1])

C17_Witness ==
  /\ Len(data) = 3
  /\ method = Some(STR_zstd)
  /\ index.status = "ok"
  /\ index.value[1][1][2] = 64
  /\ index.value[1][2][2] = 64 + 7
  /\ index.value[1][3][2] = 64 + 7 + 5
  /\ Len(buffer) = 64 + 7 + 5 + 7
  /\ result.op = "todict"

(***************************************************************************)
(* C18  As stated: in every written buffer all index offsets lie in        *)
(* [16+16N, buffer_length] and, the index entries listed in ascending      *)
(* order of their keys, the offsets are strictly increasing.               *)
(***************************************************************************)
OffsetOf(idx, key) == idx[CHOOSE i \in 1..Len(idx) : idx[i][1] = key][2]

KeySortedOffsets(idx) ==
  LET keys_ == Ascending({ idx[i][1] : i \in 1..Len(idx) })
  IN Tuple([j \in 1..Len(keys_) |-> OffsetOf(idx, keys_[j])])

StrictlyIncreasing(s) == \A j \in 1..(Len(s) - 1) : s[j] < s[j + 1]

C18_OffsetsKeySorted ==
  /\ index.status = "ok"
  /\ LET idx == index.value[1]
     IN /\ \A i \in 1..Len(idx) :
             idx[i][2] >= HEADER_LENGTH + 16 * Len(idx) /\ idx[i][2] <= Len(buffer)
        /\ StrictlyIncreasing(KeySortedOffsets(idx))

(***************************************************************************)
(* C18 (amended)  In every written buffer all index offsets lie in         *)
(* [16+16N, buffer_length - 4] and are strictly increasing in index        *)
(* (Eytzinger) slot order; listed in ascending order of the keys they are  *)
(* strictly increasing only when N <= 1.                                   *)
(***************************************************************************)
C18_OffsetsSlotOrder ==
  /\ index.status = "ok"
  /\ LET idx == index.value[1]
         N == Len(idx)
     IN /\ \A i \in 1..N :
             idx[i][2] >= HEADER_LENGTH + 16 * N /\ idx[i][2] <= Len(buffer) - 4
        /\ StrictlyIncreasing(Tuple([i \in 1..N |-> idx[i][2]]))
        /\ StrictlyIncreasing(KeySortedOffsets(idx)) <=> N <= 1

C18_Witness ==
  /\ Len(data) = 2
  /\ data[1][1] < data[2][1]
  /\ index.status = "ok"
  /\ index.value[1][1][1] = data[2][1]
  /\ index.value[1][1][2] = 48
  /\ index.value[1][2][1] = data[1][1]
  /\ index.value[1][2][2] > 48
  /\ result.op = "rewrite"

(***************************************************************************)
(* C19  The writer rejects duplicate keys: when two keys of the input dict *)
(* convert to the same unsigned integer the build fails, and the keys in   *)
(* the index of every buffer that is emitted are pairwise distinct.        *)
(***************************************************************************)
C19_RejectsDuplicates ==
  result.op = "dict2buf" =>
    /\ (\E i, j \in 1..Len(data) : i # j /\ data[i][1].int = data[j][1].int)
         => result.status # "ok"
    /\ result.status = "ok" =>
         /\ index.status = "ok"
         /\ \A i, j \in 1..Len(index.value[1]) :
              i # j => index.value[1][i][1] # index.value[1][j][1]

(***************************************************************************)
(* C14  Concurrent readers need no synchronization: in every interleaving  *)
(* of the lookups (get, [], in) of several threads on one reader over a    *)
(* buffer nobody writes, cache fills by more than one thread included,     *)
(* every lookup returns what the same lookup returns when run alone, and   *)
(* the cached header, index and compression name, once set, are those of   *)
(* the buffer's bytes.                                                     *)
(***************************************************************************)
Alone(op, label) ==
  IF op = "getitem" THEN __getitem__(label)
  ELSE IF op = "get" THEN get(label, None)
  ELSE __contains__(label)

C14_ConcurrentReaders ==
  /\ _header # None => _header[1] = SliceTo(buffer, HEADER_LENGTH)
  /\ _index # None =>
       LET N == from_bytes(Slice(buffer, 12, 16))
       IN _index[1] = frombuffer(Slice(buffer, HEADER_LENGTH, 16 * N + HEADER_LENGTH), N)
  /\ _compress # None => _compress = normalize_encoding(Some(Slice(buffer, 8, 12)))
  /\ \A t \in Threads :
       threads[t].pc = "done" =>
         /\ threads[t].out[1] = Alone(threads[t].op, threads[t].label)
         /\ threads[t].out[1] = Answer(threads[t].op, threads[t].label, None)

\* both threads found the index unset; one has filled it and finished its
\* lookup, the other is about to fill it again
C14_Witness ==
  /\ threads[1].pc = "done"
  /\ threads[1].op = "getitem"
  /\ threads[1].out[1].status = "ok"
  /\ threads[1].out[1].value = Some(<<255, 104>>)
  /\ threads[2].pc = "index_store"
  /\ _index # None
  /\ _compress = Some(STR_gzip)

====
